---- MODULE Spec2Model ----
(***************************************************************************)
(* Model of the vc-backend clothing pipeline.                              *)
(*                                                                         *)
(*  - apply_clothing.py: one run of the script, stage by stage, from the   *)
(*    argument parsing to the export of the composed scene (Spec).         *)
(*  - main.py upload_clothing: requests for one doll, each running the     *)
(*    script as a subprocess that writes <doll_id>_updated.glb and then    *)
(*    moving that file onto the doll file (SpecUpload).                    *)
(*                                                                         *)
(* Floating point quantities are kept as exact scaled integers:            *)
(*   fractions of the height (torso_min, 0.35, ...) in hundredths,         *)
(*   t_min/t_max times 100, centers times 2, radial_limit times 100.       *)
(* A mesh's vertex array is kept as a bag over the points of Coord: the    *)
(* masks, the counts and the bounding box do not depend on vertex order.   *)
(***************************************************************************)
EXTENDS Integers, Sequences, FiniteSets, TLC

(***************************************************************************)
(* Bounds of the model                                                     *)
(***************************************************************************)
MaxCopies == 9
MaxNodes == 3
MaxHullFaces == 2
MaxRequests == 2
MaxWorkers == 2

(***************************************************************************)
(* Program constants                                                       *)
(***************************************************************************)
DefaultTorsoMin100 == 40
DefaultTorsoMax100 == 85
RadialFactor100 == 55
MinTorsoVerts == 10
FallbackMin100 == 35
FallbackMax100 == 90
max_tex == 2048
OffsetFactor1000 == 5
FallbackOffsetFactor1000 == 3

FlatColor == <<200, 200, 200, 255>>

(***************************************************************************)
(* Input universe                                                          *)
(***************************************************************************)
\* Vertex positions <<x, y, z>> a body mesh may hold.
Coord ==
  << <<-30, 0, -20>>, <<30, 180, 20>>, <<0, 100, 0>>,
     <<20, 100, 0>>, <<30, 100, 20>>, <<0, 65, 0>> >>

Pts == 1..Len(Coord)
Mults == {0, 1, MaxCopies}

NoVerts == [i \in Pts |-> 0]
NoGeom == [verts |-> NoVerts, faces |-> 0, kind |-> "None"]

\* Trimesh geometries: a mesh with faces has at least one vertex.
BodyGeoms ==
  {[verts |-> v, faces |-> 1, kind |-> "Trimesh"] :
      v \in [Pts -> Mults] \ {NoVerts}}

\* Geometries of the multi-node scenes.
TorsoGeom ==
  [verts |-> [i \in Pts |-> IF i \in {1, 2, 4} THEN 1
                            ELSE IF i = 3 THEN MaxCopies ELSE 0],
   faces |-> 1, kind |-> "Trimesh"]
SmallGeom ==
  [verts |-> [i \in Pts |-> IF i = 3 THEN 1 ELSE 0],
   faces |-> 1, kind |-> "Trimesh"]
OddGeoms ==
  { [verts |-> NoVerts, faces |-> 0, kind |-> "Trimesh"],
    [verts |-> TorsoGeom.verts, faces |-> 0, kind |-> "Trimesh"],
    [verts |-> TorsoGeom.verts, faces |-> 1, kind |-> "Path"],
    [verts |-> TorsoGeom.verts, faces |-> 0, kind |-> "Path"] }

NodeNames == {"geometry_0", "body", "cloth", "hair"}

ThresholdPairs ==
  { <<DefaultTorsoMin100, DefaultTorsoMax100>>, <<10, 95>>, <<45, 80>>, <<85, 40>> }

ImgDims == {1, 3, max_tex, max_tex + 1, 2 * max_tex}

DefaultImg == <<512, 512>>

\* File contents: absent, the doll as created, or what request r wrote.
Absent == <<"absent", 0>>
OrigDoll == <<"created", 0>>
Empty == <<"empty", 0>>
FileNames == {"shirt.png", "coat.png"}
Requests == 1..MaxRequests
Workers == 1..MaxWorkers

Node(n, g) == [name |-> n, geom |-> g]

\* Sequences of 2..MaxNodes nodes with distinct names.
MultiScenes ==
  UNION { { s \in [1..k -> {Node(n, g) : n \in NodeNames, g \in {TorsoGeom, SmallGeom}}] :
              \A i, j \in 1..k : i # j => s[i].name # s[j].name }
          : k \in 2..MaxNodes }

In(sc, tmin, tmax, im) ==
  [scene |-> sc, torso_min |-> tmin, torso_max |-> tmax, img |-> im, type |-> "tshirt"]

\* The inputs of a run: every body mesh under every threshold pair; the
\* degenerate and multi-node scenes; every image size.
RegionInputs ==
  { In(<<Node("geometry_0", g)>>, t[1], t[2], DefaultImg) :
      g \in BodyGeoms, t \in ThresholdPairs }
SceneInputs ==
  { In(sc, DefaultTorsoMin100, DefaultTorsoMax100, DefaultImg) :
      sc \in MultiScenes \cup {<<>>} \cup { <<Node("geometry_0", g)>> : g \in OddGeoms } }
ImageInputs ==
  { In(<<Node("geometry_0", TorsoGeom)>>, DefaultTorsoMin100, DefaultTorsoMax100, <<w, h>>) :
      w \in ImgDims, h \in ImgDims }
Inputs == RegionInputs \cup SceneInputs \cup ImageInputs

(***************************************************************************)
(* State                                                                   *)
(***************************************************************************)
VARIABLES
  args,            \* parsed command line and the files it names
  pc,              \* position of the script
  exit_code,       \* -1 while running, else the process exit status
  stages,          \* stages of the script that have executed
  body_name, body, \* the chosen body geometry
  bbox,            \* [min, max] corners of body.bounds
  t_min100, t_max100, radial_limit100,
  verts_torso,     \* selected vertices (bag)
  primary_count,   \* verts_torso.shape[0] after the primary mask
  fallback_evals,  \* times the fallback thresholds were evaluated
  clothing_mesh,   \* reconstructed surface
  uv,              \* per-vertex texture coordinates (count, v range)
  new_size,        \* size computed for the resize, <<0, 0>> if none
  image,           \* texture size after the optional resize
  textured_cloth,  \* clothing surface with its visual
  out_scene,       \* node name -> payload
  out_written,     \* whether args.out was written
  reqs, fs, loop   \* upload_clothing requests, files, event loops

pipeVars ==
  << args, pc, exit_code, stages, body_name, body, bbox, t_min100, t_max100,
     radial_limit100, verts_torso, primary_count, fallback_evals, clothing_mesh,
     uv, new_size, image, textured_cloth, out_scene, out_written >>
upVars == << reqs, fs, loop >>
vars == << pipeVars, upVars >>

(***************************************************************************)
(* Helpers                                                                 *)
(***************************************************************************)
RECURSIVE SumTo(_, _)
SumTo(f, n) == IF n = 0 THEN 0 ELSE f[n] + SumTo(f, n - 1)

\* vertices.shape[0]
NVerts(v) == SumTo(v, Len(Coord))

Support(v) == {i \in Pts : v[i] > 0}

MinOf(S) == CHOOSE x \in S : \A y \in S : x <= y
MaxOf(S) == CHOOSE x \in S : \A y \in S : y <= x
Max2(a, b) == IF a >= b THEN a ELSE b

\* body.bounds
Bounds(v) ==
  [min |-> [k \in 1..3 |-> MinOf({Coord[i][k] : i \in Support(v)})],
   max |-> [k \in 1..3 |-> MaxOf({Coord[i][k] : i \in Support(v)})]]

Extent(b) == [k \in 1..3 |-> b.max[k] - b.min[k]]
Height(b) == b.max[2] - b.min[2]

\* min_y + frac * height, times 100
BandEdge100(b, frac100) == 100 * b.min[2] + frac100 * Height(b)

\* max(extent[0], extent[2]) * 0.55, times 100
RadialLimit100(b) == Max2(Extent(b)[1], Extent(b)[3]) * RadialFactor100

InBand(i, lo100, hi100) == 100 * Coord[i][2] >= lo100 /\ 100 * Coord[i][2] <= hi100

\* dx*dx + dz*dz <= radial_limit * radial_limit, with dx = x - center_x
InRadius(i, b, rl100) ==
  LET dx2 == 2 * Coord[i][1] - (b.min[1] + b.max[1])
      dz2 == 2 * Coord[i][3] - (b.min[3] + b.max[3])
  IN  2500 * (dx2 * dx2 + dz2 * dz2) <= rl100 * rl100

\* verts[mask] for the primary mask
PrimaryMask(v, b, lo100, hi100, rl100) ==
  [i \in Pts |-> IF InBand(i, lo100, hi100) /\ InRadius(i, b, rl100) THEN v[i] ELSE 0]

\* verts[mask] for the fallback mask
FallbackMask(v, lo100, hi100) ==
  [i \in Pts |-> IF InBand(i, lo100, hi100) THEN v[i] ELSE 0]

\* A slip in the comparison of line 99 / 106.
TooFewOrEqual(n) == n <= MinTorsoVerts

\* verts_torso.shape[0] < 10
TooFew(n) == n < MinTorsoVerts

\* max(geoms, key = vertex count): the first geometry of maximal vertex count
BodyIndex(sc) ==
  CHOOSE i \in 1..Len(sc) :
    /\ \A j \in 1..Len(sc) : NVerts(sc[j].geom.verts) <= NVerts(sc[i].geom.verts)
    /\ \A j \in 1..(i - 1) : NVerts(sc[j].geom.verts) < NVerts(sc[i].geom.verts)

\* max(image.size) > max_tex
NeedsResize(sz) == Max2(sz[1], sz[2]) > max_tex

\* new_size: (int(w * scale), int(h * scale)) with scale = max_tex / max(w, h)
NewSize(sz) ==
  << (sz[1] * max_tex) \div Max2(sz[1], sz[2]),
     (sz[2] * max_tex) \div Max2(sz[1], sz[2]) >>

\* Scene.add_geometry(geom, node_name = n): the node is set, an existing node
\* of that name is overwritten
AddGeometry(sc, payload, n) ==
  [m \in (DOMAIN sc) \cup {n} |-> IF m = n THEN payload ELSE sc[m]]

BodyNodeName(n) == "body"
ClothNodeName == "cloth"

RECURSIVE ComposeFrom(_, _, _, _)
ComposeFrom(sc, bname, i, out) ==
  IF i > Len(sc) THEN out
  ELSE ComposeFrom(sc, bname, i + 1,
         IF sc[i].name = bname
         THEN AddGeometry(out, [src |-> "body", idx |-> i], BodyNodeName(bname))
         ELSE AddGeometry(out, [src |-> "input", idx |-> i], sc[i].name))

NoCloth == [verts |-> {}, faces |-> 0, visual |-> "none", colors |-> <<>>,
            disp |-> "none", mag1000 |-> 0, name |-> ""]

(***************************************************************************)
(* apply_clothing.py                                                       *)
(***************************************************************************)
\* The script before its first statement.
PipeStart ==
  /\ pc = "import"
  /\ exit_code = -1
  /\ stages = {}
  /\ body_name = ""
  /\ body = NoGeom
  /\ bbox = [min |-> <<0, 0, 0>>, max |-> <<0, 0, 0>>]
  /\ t_min100 = 0
  /\ t_max100 = 0
  /\ radial_limit100 = 0
  /\ verts_torso = NoVerts
  /\ primary_count = 0
  /\ fallback_evals = 0
  /\ clothing_mesh = [verts |-> {}, faces |-> 0]
  /\ uv = [n |-> 0, v_min |-> 0, v_max |-> 0]
  /\ new_size = <<0, 0>>
  /\ image = <<0, 0>>
  /\ textured_cloth = NoCloth
  /\ out_scene = <<>>
  /\ out_written = FALSE

\* One run of apply_clothing.py on its own: no request is in flight.
Init ==
  /\ args \in Inputs
  /\ PipeStart
  /\ reqs = <<>>
  /\ fs = [doll |-> OrigDoll, updated |-> Absent, clothing |-> [f \in FileNames |-> Absent]]
  /\ loop = <<>>

Terminate(code) == pc' = "exit" /\ exit_code' = code

regionVars == << bbox, t_min100, t_max100, radial_limit100, verts_torso,
                 primary_count, fallback_evals >>
lateVars == << clothing_mesh, uv, new_size, image, textured_cloth, out_scene, out_written >>

\* lines 35-39
ImportTrimesh ==
  /\ pc = "import"
  /\ \E ok \in BOOLEAN :
       IF ok THEN pc' = "files" /\ exit_code' = exit_code ELSE Terminate(2)
  /\ UNCHANGED << args, stages, body_name, body, regionVars, lateVars, upVars >>

\* lines 41-46
CheckFiles ==
  /\ pc = "files"
  /\ \E doll_exists \in BOOLEAN, img_exists \in BOOLEAN :
       IF ~doll_exists THEN Terminate(3)
       ELSE IF ~img_exists THEN Terminate(4)
       ELSE pc' = "load" /\ exit_code' = exit_code
  /\ UNCHANGED << args, stages, body_name, body, regionVars, lateVars, upVars >>

\* lines 49-58
LoadScene ==
  /\ pc = "load"
  /\ stages' = stages \cup {"load"}
  /\ IF Len(args.scene) = 0
     THEN Terminate(5) /\ UNCHANGED << body_name, body >>
     ELSE /\ body_name' = args.scene[BodyIndex(args.scene)].name
          /\ body' = args.scene[BodyIndex(args.scene)].geom
          /\ pc' = "coerce" /\ exit_code' = exit_code
  /\ UNCHANGED << args, regionVars, lateVars, upVars >>

\* lines 60-66
Coerce ==
  /\ pc = "coerce"
  /\ IF body.kind = "Trimesh"
     THEN pc' = "faces" /\ UNCHANGED << exit_code, body >>
     ELSE \E ok \in BOOLEAN :
            IF ok THEN /\ body' = [body EXCEPT !.kind = "Trimesh"]
                       /\ pc' = "faces" /\ exit_code' = exit_code
            ELSE Terminate(6) /\ body' = body
  /\ UNCHANGED << args, stages, body_name, regionVars, lateVars, upVars >>

\* lines 69-71
CheckFaces ==
  /\ pc = "faces"
  /\ IF body.faces = 0 THEN Terminate(7) ELSE pc' = "bounds" /\ exit_code' = exit_code
  /\ UNCHANGED << args, stages, body_name, body, regionVars, lateVars, upVars >>

\* lines 74-90
ComputeBounds ==
  /\ pc = "bounds"
  /\ bbox' = Bounds(body.verts)
  /\ t_min100' = BandEdge100(bbox', args.torso_min)
  /\ t_max100' = BandEdge100(bbox', args.torso_max)
  /\ radial_limit100' = RadialLimit100(bbox')
  /\ pc' = "mask"
  /\ UNCHANGED << args, exit_code, stages, body_name, body, verts_torso,
                  primary_count, fallback_evals, lateVars, upVars >>

\* lines 92-98
SelectPrimary ==
  /\ pc = "mask"
  /\ verts_torso' = PrimaryMask(body.verts, bbox, t_min100, t_max100, radial_limit100)
  /\ primary_count' = NVerts(verts_torso')
  /\ stages' = stages \cup {"region"}
  /\ pc' = "fallback"
  /\ UNCHANGED << args, exit_code, body_name, body, bbox, t_min100, t_max100,
                  radial_limit100, fallback_evals, lateVars, upVars >>

\* lines 99-104
SelectFallback ==
  /\ pc = "fallback"
  /\ IF TooFew(NVerts(verts_torso))
     THEN /\ t_min100' = BandEdge100(bbox, FallbackMin100)
          /\ t_max100' = BandEdge100(bbox, FallbackMax100)
          /\ verts_torso' = FallbackMask(body.verts, t_min100', t_max100')
          /\ fallback_evals' = fallback_evals + 1
     ELSE UNCHANGED << t_min100, t_max100, verts_torso, fallback_evals >>
  /\ pc' = "region_check"
  /\ UNCHANGED << args, exit_code, stages, body_name, body, bbox, radial_limit100,
                  primary_count, lateVars, upVars >>

\* lines 106-108
CheckRegion ==
  /\ pc = "region_check"
  /\ IF TooFew(NVerts(verts_torso)) THEN Terminate(8)
     ELSE pc' = "hull" /\ exit_code' = exit_code
  /\ UNCHANGED << args, stages, body_name, body, regionVars, lateVars, upVars >>

\* lines 111-121: the hull is the library's; it raises, or returns a surface
\* over the selected points with some number of faces
BuildHull ==
  /\ pc = "hull"
  /\ stages' = stages \cup {"hull"}
  /\ \E first \in {"ok", "raise"}, second \in {"ok", "raise"}, f \in 0..MaxHullFaces :
       IF first = "ok" \/ second = "ok"
       THEN /\ clothing_mesh' = [verts |-> Support(verts_torso), faces |-> f]
            /\ pc' = "surface" /\ exit_code' = exit_code
       ELSE Terminate(9) /\ clothing_mesh' = clothing_mesh
  /\ UNCHANGED << args, body_name, body, regionVars, uv, new_size, image,
                  textured_cloth, out_scene, out_written, upVars >>

\* lines 124-126
CheckSurface ==
  /\ pc = "surface"
  /\ IF clothing_mesh.faces = 0 THEN Terminate(10)
     ELSE pc' = "uv" /\ exit_code' = exit_code
  /\ UNCHANGED << args, stages, body_name, body, regionVars, lateVars, upVars >>

\* lines 129-141: one (u, v) per vertex; v spans the surface's own Y range
ComputeUV ==
  /\ pc = "uv"
  /\ stages' = stages \cup {"uv"}
  /\ uv' = [n |-> Cardinality(clothing_mesh.verts),
            v_min |-> MinOf({Coord[i][2] : i \in clothing_mesh.verts}),
            v_max |-> MaxOf({Coord[i][2] : i \in clothing_mesh.verts})]
  /\ pc' = "image"
  /\ UNCHANGED << args, exit_code, body_name, body, regionVars, clothing_mesh,
                  new_size, image, textured_cloth, out_scene, out_written, upVars >>

\* lines 144-150: Image.resize raises on a size with a zero side, which
\* nothing catches
LoadImage ==
  /\ pc = "image"
  /\ stages' = stages \cup {"image"}
  /\ IF NeedsResize(args.img)
     THEN /\ new_size' = NewSize(args.img)
          /\ IF new_size'[1] < 1 \/ new_size'[2] < 1
             THEN Terminate(1) /\ image' = args.img
             ELSE image' = new_size' /\ pc' = "texture" /\ exit_code' = exit_code
     ELSE /\ image' = args.img
          /\ pc' = "texture"
          /\ UNCHANGED << new_size, exit_code >>
  /\ UNCHANGED << args, body_name, body, regionVars, clothing_mesh, uv,
                  textured_cloth, out_scene, out_written, upVars >>

\* The clothing surface built over the reconstructed surface (lines 156, 162).
Cloth(visual) ==
  [verts |-> clothing_mesh.verts, faces |-> clothing_mesh.faces, visual |-> visual,
   colors |-> IF visual = "flat" THEN [i \in clothing_mesh.verts |-> FlatColor]
              ELSE [i \in {} |-> FlatColor],
   disp |-> "none", mag1000 |-> 0, name |-> ""]

\* A slip that would treat the failed binding as fatal.
BindTextureFatal ==
  /\ pc = "texture"
  /\ \E raised \in BOOLEAN :
       IF raised
       THEN /\ stages' = stages \cup {"texture", "texture_fallback"}
            /\ Terminate(12)
            /\ textured_cloth' = textured_cloth
       ELSE /\ stages' = stages \cup {"texture"}
            /\ textured_cloth' = Cloth("texture")
            /\ pc' = "offset" /\ exit_code' = exit_code
  /\ UNCHANGED << args, body_name, body, regionVars, clothing_mesh, uv,
                  new_size, image, out_scene, out_written, upVars >>

\* lines 152-162; "texture_fallback" is the message of line 159
BindTexture ==
  /\ pc = "texture"
  /\ \E raised \in BOOLEAN :
       /\ stages' = stages \cup (IF raised THEN {"texture", "texture_fallback"}
                                 ELSE {"texture"})
       /\ textured_cloth' = Cloth(IF raised THEN "flat" ELSE "texture")
  /\ pc' = "offset"
  /\ UNCHANGED << args, exit_code, body_name, body, regionVars, clothing_mesh, uv,
                  new_size, image, out_scene, out_written, upVars >>

MaxExtent(b) == Max2(Extent(b)[1], Max2(Extent(b)[2], Extent(b)[3]))

\* lines 164-178
OffsetCloth ==
  /\ pc = "offset"
  /\ stages' = stages \cup {"offset"}
  /\ \E raised \in BOOLEAN :
       textured_cloth' =
         [textured_cloth EXCEPT
            !.disp = IF raised THEN "from_center" ELSE "normals",
            !.mag1000 = (IF raised THEN FallbackOffsetFactor1000 ELSE OffsetFactor1000)
                          * MaxExtent(bbox),
            !.name = "cloth_" \o args.type]
  /\ pc' = "compose"
  /\ UNCHANGED << args, exit_code, body_name, body, regionVars, clothing_mesh, uv,
                  new_size, image, out_scene, out_written, upVars >>

\* lines 180-192
Compose ==
  /\ pc = "compose"
  /\ stages' = stages \cup {"compose"}
  /\ out_scene' = AddGeometry(ComposeFrom(args.scene, body_name, 1, <<>>),
                              [src |-> "cloth", idx |-> 0], ClothNodeName)
  /\ pc' = "export"
  /\ UNCHANGED << args, exit_code, body_name, body, regionVars, clothing_mesh, uv,
                  new_size, image, textured_cloth, out_written, upVars >>

\* lines 194-204: os.makedirs may raise (uncaught); export may raise before or
\* after the file was created
Export ==
  /\ pc = "export"
  /\ stages' = stages \cup {"export"}
  /\ \E outcome \in {"ok", "makedirs_raises", "export_raises"}, created \in BOOLEAN :
       CASE outcome = "ok" -> Terminate(0) /\ out_written' = TRUE
         [] outcome = "makedirs_raises" -> Terminate(1) /\ out_written' = FALSE
         [] OTHER -> Terminate(11) /\ out_written' = created
  /\ UNCHANGED << args, body_name, body, regionVars, clothing_mesh, uv,
                  new_size, image, textured_cloth, out_scene, upVars >>

Next ==
  \/ ImportTrimesh
  \/ CheckFiles
  \/ LoadScene
  \/ Coerce
  \/ CheckFaces
  \/ ComputeBounds
  \/ SelectPrimary
  \/ SelectFallback
  \/ CheckRegion
  \/ BuildHull
  \/ CheckSurface
  \/ ComputeUV
  \/ LoadImage
  \/ BindTexture
  \/ OffsetCloth
  \/ Compose
  \/ Export

Spec == Init /\ [][Next]_vars

(***************************************************************************)
(* main.py: upload_clothing for one doll_id.  Each request runs on the     *)
(* event loop of a server process (worker); a coroutine gives up the loop  *)
(* only at `await file.read()`, and subprocess.run blocks the loop until   *)
(* the child exits.  Server processes run in parallel with each other.     *)
(***************************************************************************)
By(r) == <<"request", r>>

InitUpload ==
  /\ args = In(<<Node("geometry_0", TorsoGeom)>>, DefaultTorsoMin100,
               DefaultTorsoMax100, DefaultImg)
  /\ PipeStart
  /\ reqs \in [Requests -> {[pc |-> "idle", worker |-> w, filename |-> f, rc |-> -1,
                             status |-> 0, dressed |-> Absent, moved |-> Absent] :
                            w \in Workers, f \in FileNames}]
  /\ fs \in {[doll |-> d, updated |-> Absent, clothing |-> [f \in FileNames |-> Absent]] :
             d \in {OrigDoll, Absent}}
  /\ loop = [w \in Workers |-> 0]

LoopFree(r) == loop[reqs[r].worker] = 0
Holds(r) == loop[reqs[r].worker] = r
Release(r) == loop' = [loop EXCEPT ![reqs[r].worker] = 0]

\* lines 85-94 up to the await: 404, or the clothing file is opened "wb"
StartRequest(r) ==
  /\ reqs[r].pc = "idle"
  /\ LoopFree(r)
  /\ IF fs.doll = Absent
     THEN /\ reqs' = [reqs EXCEPT ![r].pc = "done", ![r].status = 404]
          /\ fs' = fs
     ELSE /\ reqs' = [reqs EXCEPT ![r].pc = "await_read"]
          /\ fs' = [fs EXCEPT !.clothing[reqs[r].filename] = Empty]
  /\ UNCHANGED << loop, pipeVars >>

\* line 94 after the await: the upload is written; the coroutine now holds
\* the loop until it returns
WriteClothing(r) ==
  /\ reqs[r].pc = "await_read"
  /\ LoopFree(r)
  /\ loop' = [loop EXCEPT ![reqs[r].worker] = r]
  /\ fs' = [fs EXCEPT !.clothing[reqs[r].filename] = By(r)]
  /\ reqs' = [reqs EXCEPT ![r].pc = "spawned"]
  /\ UNCHANGED pipeVars

\* lines 96-104, the child: apply_clothing.py lines 41-49 read the doll and
\* the image (exit 3 and 4 when one is missing)
ChildLoad(r) ==
  /\ reqs[r].pc = "spawned"
  /\ Holds(r)
  /\ IF fs.doll = Absent \/ fs.clothing[reqs[r].filename] = Absent
     THEN reqs' = [reqs EXCEPT ![r].pc = "returned",
                               ![r].rc = IF fs.doll = Absent THEN 3 ELSE 4]
     ELSE reqs' = [reqs EXCEPT ![r].pc = "child", ![r].dressed = fs.doll]
  /\ UNCHANGED << fs, loop, pipeVars >>

\* the child: apply_clothing.py ends with a failure exit, or line 200 writes
\* args.out = <doll_id>_updated.glb and it exits 0
ChildExport(r) ==
  /\ reqs[r].pc = "child"
  /\ Holds(r)
  /\ \E code \in {0, 1, 5, 6, 7, 8, 9, 10, 11} :
       /\ reqs' = [reqs EXCEPT ![r].pc = "returned", ![r].rc = code]
       /\ fs' = IF code = 0 THEN [fs EXCEPT !.updated = By(r)] ELSE fs
  /\ UNCHANGED << loop, pipeVars >>

\* lines 106-111
CheckResult(r) ==
  /\ reqs[r].pc = "returned"
  /\ Holds(r)
  /\ IF reqs[r].rc # 0 \/ fs.updated = Absent
     THEN /\ reqs' = [reqs EXCEPT ![r].pc = "done", ![r].status = 500]
          /\ Release(r)
     ELSE /\ reqs' = [reqs EXCEPT ![r].pc = "move"]
          /\ loop' = loop
  /\ UNCHANGED << fs, pipeVars >>

\* line 113: shutil.move raises when the source is gone (a 500 response)
MoveUpdated(r) ==
  /\ reqs[r].pc = "move"
  /\ Holds(r)
  /\ IF fs.updated = Absent
     THEN /\ reqs' = [reqs EXCEPT ![r].pc = "done", ![r].status = 500]
          /\ Release(r)
          /\ fs' = fs
     ELSE /\ reqs' = [reqs EXCEPT ![r].pc = "respond", ![r].moved = fs.updated]
          /\ fs' = [fs EXCEPT !.doll = fs.updated, !.updated = Absent]
          /\ loop' = loop
  /\ UNCHANGED pipeVars

\* lines 115-120: the file_url is set to the value it had; 200
Respond(r) ==
  /\ reqs[r].pc = "respond"
  /\ Holds(r)
  /\ reqs' = [reqs EXCEPT ![r].pc = "done", ![r].status = 200]
  /\ Release(r)
  /\ UNCHANGED << fs, pipeVars >>

NextUpload ==
  \E r \in Requests :
    \/ StartRequest(r)
    \/ WriteClothing(r)
    \/ ChildLoad(r)
    \/ ChildExport(r)
    \/ CheckResult(r)
    \/ MoveUpdated(r)
    \/ Respond(r)

SpecUpload == InitUpload /\ [][NextUpload]_vars

(***************************************************************************)
(* Claims                                                                  *)
(***************************************************************************)
Composed == "compose" \in stages
LateStages == {"hull", "uv", "image", "texture", "offset", "compose", "export"}

\* C1: on every run that reaches the composition step the output scene has
\* exactly (input node count + 1) nodes, i.e. the names under which the input
\* nodes and the clothing were added are pairwise different, also when a
\* non-body input node is already named "body" or "cloth".
C1_NodeCountPlusOne ==
  Composed => Cardinality(DOMAIN out_scene) = Len(args.scene) + 1

\* C2: in the output scene the body mesh is stored under the node name it had
\* in the input scene, and every other input node appears under its original
\* name with its original geometry.
C2_NodeIdentityPreserved ==
  Composed =>
    \A i \in 1..Len(args.scene) :
      /\ args.scene[i].name \in DOMAIN out_scene
      /\ out_scene[args.scene[i].name] =
           [src |-> IF args.scene[i].name = body_name THEN "body" ELSE "input", idx |-> i]

\* What the two selections yield on the run's body mesh.
PrimaryYield ==
  NVerts(PrimaryMask(body.verts, bbox, BandEdge100(bbox, args.torso_min),
                     BandEdge100(bbox, args.torso_max), RadialLimit100(bbox)))
FallbackYield ==
  NVerts(FallbackMask(body.verts, BandEdge100(bbox, 35), BandEdge100(bbox, 90)))
RegionStarted == "region" \in stages
RegionDecided == RegionStarted /\ pc \notin {"fallback", "region_check"}

\* C3: the fallback thresholds are evaluated exactly when the primary mask
\* selects fewer than 10 vertices and at most once; the run ends with exit
\* code 8 if and only if both selections yield fewer than 10 vertices, and
\* then no later stage has executed and nothing was written.
C3_FallbackChain ==
  /\ fallback_evals \in {0, 1}
  /\ (RegionStarted /\ pc # "fallback") =>
        (fallback_evals = 1 <=> PrimaryYield < 10)
  /\ (~RegionStarted \/ pc = "fallback") => fallback_evals = 0
  /\ exit_code = 8 <=> (RegionDecided /\ PrimaryYield < 10 /\ FallbackYield < 10)
  /\ exit_code = 8 =>
        /\ pc = "exit"
        /\ stages \cap LateStages = {}
        /\ ~out_written
        /\ out_scene = <<>>

C3_Witness ==
  exit_code = 8 /\ fallback_evals = 1 /\ NVerts(body.verts) >= 10

\* C4: for thresholds torso_min < torso_max in [0,1], the fallback band
\* contains the primary band.
C4_FallbackBandSuperset ==
  (/\ 0 <= args.torso_min
   /\ args.torso_min < args.torso_max
   /\ args.torso_max <= 100
   /\ fallback_evals = 1) =>
     /\ t_min100 <= BandEdge100(bbox, args.torso_min)
     /\ BandEdge100(bbox, args.torso_max) <= t_max100

\* C5: the radial limit is 0.55 times half of the larger of the X and Z
\* extents; for the bounding box X in [-30,30], Z in [-20,20] (limit 16.5) a
\* vertex of the torso band at horizontal distance 20 from the center is not
\* selected by the primary mask.
C5_RadialLimitHalfExtent ==
  RegionStarted =>
    /\ 2 * radial_limit100 = 55 * Max2(Extent(bbox)[1], Extent(bbox)[3])
    /\ (/\ pc = "fallback"
        /\ bbox = [min |-> <<-30, 0, -20>>, max |-> <<30, 180, 20>>]
        /\ body.verts[4] > 0) => verts_torso[4] = 0

\* C6: whenever the construction of the textured visual fails the run does
\* not end there: the clothing surface has the flat color (200,200,200,255)
\* on every vertex and the vertices and faces of the reconstructed surface,
\* and the run goes on through offset, composition and export.
C6_TextureDegradation ==
  "texture_fallback" \in stages =>
    /\ textured_cloth.visual = "flat"
    /\ textured_cloth.verts = clothing_mesh.verts
    /\ textured_cloth.faces = clothing_mesh.faces
    /\ DOMAIN textured_cloth.colors = clothing_mesh.verts
    /\ \A i \in clothing_mesh.verts : textured_cloth.colors[i] = <<200, 200, 200, 255>>
    /\ pc \in {"offset", "compose", "export", "exit"}
    /\ pc = "exit" => {"offset", "compose", "export"} \subseteq stages
    /\ pc = "compose" => textured_cloth.disp # "none"
    /\ pc = "export" => ClothNodeName \in DOMAIN out_scene

C6_Witness ==
  /\ "texture_fallback" \in stages
  /\ pc = "exit" /\ exit_code = 0 /\ out_written
  /\ out_scene[ClothNodeName] = [src |-> "cloth", idx |-> 0]

Abs(x) == IF x < 0 THEN -x ELSE x

\* C7: for every image size (w,h), w,h >= 1, with max(w,h) > 2048 the resized
\* image has its larger side 2048 within one pixel, both sides at least 1 and
\* a width/height ratio within 1% of w/h; otherwise the size is unchanged.
C7_Downscale ==
  "image" \in stages =>
    IF Max2(args.img[1], args.img[2]) > 2048
    THEN /\ Max2(new_size[1], new_size[2]) \in {2047, 2048}
         /\ new_size[1] >= 1 /\ new_size[2] >= 1
         /\ 100 * Abs(new_size[1] * args.img[2] - args.img[1] * new_size[2])
              <= args.img[1] * new_size[2]
    ELSE image = args.img

\* C8: if the name under which the clothing is added is the name of a node
\* already in the output scene, the run fails (non-zero exit, no output
\* written) instead of overwriting the node.
C8_ClothCollisionFails ==
  (/\ pc = "exit"
   /\ Composed
   /\ ClothNodeName \in DOMAIN ComposeFrom(args.scene, body_name, 1, <<>>)) =>
     exit_code # 0 /\ ~out_written

\* C9: of two overlapping upload_clothing requests for one doll, neither
\* request's pipeline output is overwritten or moved away by the other before
\* the request has moved it onto the doll file, and neither reports a failure
\* that its own pipeline did not cause.
C9_NoClobber ==
  \A r \in DOMAIN reqs :
    /\ (reqs[r].pc \in {"returned", "move"} /\ reqs[r].rc = 0) => fs.updated = By(r)
    /\ reqs[r].moved \in {Absent, By(r)}
    /\ reqs[r].status = 500 => reqs[r].rc \notin {-1, 0}

\* C10: every vertex handed to the reconstructor lies inside the vertical
\* band in effect and within the radial limit of the horizontal center, also
\* when the fallback band was used.
C10_RegionMaskInvariant ==
  "hull" \in stages =>
    \A i \in Pts :
      verts_torso[i] > 0 =>
        InBand(i, t_min100, t_max100) /\ InRadius(i, bbox, radial_limit100)

====
